---- MODULE Spec2Model ----
(***************************************************************************)
(* Order lifecycle and inventory of the storefront backend.                *)
(*                                                                         *)
(* The persistent store (products, orders, carts) is shared by request     *)
(* handlers that run concurrently.  A handler is a sequence of atomic      *)
(* steps, one per store round trip (each `await` of the route); the code   *)
(* between two round trips is local and is folded into the step of the     *)
(* round trip that follows it.                                             *)
(*                                                                         *)
(* Mongoose semantics used throughout:                                     *)
(*   doc.save() of a loaded document sends $set of the paths whose value   *)
(*     differs from the value that was loaded (the locally computed value, *)
(*     not a delta), and $push for entries pushed on an array;             *)
(*   doc.save() validates the document first, then runs the schema's       *)
(*     pre('save') hooks, then writes;                                     *)
(*   Model.findByIdAndUpdate(id, {$inc: ...}) is one atomic update and     *)
(*     runs no validator.                                                  *)
(***************************************************************************)
EXTENDS Integers, Sequences, FiniteSets, TLC

(* ------------------------------ bounds -------------------------------- *)

Products == {"A", "B"}
Users == {"u1", "u2"}
Reqs == {"r1", "r2"}

\* orders that may exist (persisted or being created)
MaxOrders == 2
\* line items of one createOrder request
MaxItems == 2
\* largest quantity of a line item
MaxQty == 2
\* stock of every product in the initial state
InitStock == 1
\* largest stock an admin product update sets
MaxStock == 2
\* last instant of the clock (Date.now())
MaxNow == 1
\* Math.random() suffixes are drawn from 0..MaxRandom
MaxRandom == 1
\* entries an order's timeline may hold
MaxTimeline == 3

(* ------------------------------ values -------------------------------- *)

NoUser == "nobody"
NoNumber == <<>>
NoCoupon == [code |-> "", type |-> "none", discount |-> 0]
NoCancellation == [set |-> FALSE, reason |-> "", refundStatus |-> "pending", refundAmount |-> 0]
Nothing == [f \in {} |-> 0]

\* orderSchema.status enum
OrderStatuses == {"pending", "confirmed", "processing", "shipped", "delivered", "cancelled", "returned"}
\* orderSchema.paymentInfo.status enum
PaymentStatuses == {"pending", "completed", "failed", "refunded"}
\* orderSchema.paymentInfo.method enum
PaymentMethods == {"razorpay", "stripe", "cod", "upi"}

ZeroNet == [p \in Products |-> 0]

\* a provider id, signature header or reason that is not there (undefined)
NoId == <<>>
NoSignature == <<>>
NoReason == ""

\* process.env.RAZORPAY_KEY_SECRET and RAZORPAY_WEBHOOK_SECRET as deployed, and the
\* latter when the variable is not set
KeySecret == "key_secret"
WebhookSecret == "webhook_secret"
NoSecret == ""

\* an id that validates as an id and names no product
Missing == "gone"

\* the items arrays of up to n line items over the given ids, with quantities up to q
ItemLists(ids, n, q) == UNION {[1..k -> [product : ids, quantity : 1..q]] : k \in 1..n}

VARIABLES
  stock,    \* Product.stock, per product
  active,   \* Product.isActive, per product
  price,    \* Product.price, per product
  orders,   \* the orders collection, in insertion order; an order's id is its index
            \* (restored: per line item, the $inc restores done for it so far; history)
  cart,     \* User.cart, per user: the products it holds
  now,      \* the clock read by Date.now() / new Date()
  webhookSecret,  \* process.env.RAZORPAY_WEBHOOK_SECRET
  req       \* the request handlers in flight, per handler slot

vars == <<stock, active, price, orders, cart, now, webhookSecret, req>>

\* A handler slot.  op, pc: the route and the place in it.  user, items, method, payIn,
\* coupon, oid, pid, po, pp, sig, event, reason: the request.  found, orderItems, i, set: the route's locals (the products
\* it loaded, the line items built so far, the loop index, the modified paths of the
\* document it will save).  result: the response.  net, cleared: what the handler has
\* done so far to each product's stock and to the cart, dropped: the cart entries it removed
\* (history, read by the properties only).
Idle ==
  [op |-> "none", pc |-> "idle", user |-> NoUser, items |-> <<>>, method |-> "none",
   payIn |-> "absent", coupon |-> NoCoupon, found |-> Nothing, orderItems |-> <<>>,
   i |-> 0, oid |-> 0, pid |-> Missing, set |-> Nothing, result |-> "none", net |-> ZeroNet,
   cleared |-> FALSE, po |-> NoId, pp |-> NoId, sig |-> NoSignature, event |-> "none",
   reason |-> NoReason, dropped |-> {}]

Init ==
  /\ stock = [p \in Products |-> InitStock]
  /\ active = [p \in Products |-> TRUE]
  /\ price = [p \in Products |-> IF p = "A" THEN 500 ELSE 1000]
  /\ orders = <<>>
  /\ cart = [u \in Users |-> {}]
  /\ now = 0
  /\ webhookSecret = WebhookSecret
  /\ req = [r \in Reqs |-> Idle]

OrderIds == 1..Len(orders)

Done(r, res) == [req[r] EXCEPT !.pc = "done", !.result = res]

(* ------------------------------ pricing ------------------------------- *)

\* Math.round(n / d) for d > 0: the nearest integer, halves upwards
Round(n, d) == (2 * n + d) \div (2 * d)

RECURSIVE Subtotal(_)
\* subtotal += product.price * item.quantity, over the line items
Subtotal(its) ==
  IF its = <<>> THEN 0 ELSE its[1].price * its[1].quantity + Subtotal(Tail(its))

\* a tax that drops the fraction
TaxTruncated(subtotal) == (subtotal * 18) \div 100

\* Math.round(subtotal * 0.18)
Tax(subtotal) == Round(subtotal * 18, 100)

\* free shipping from 1000 on
ShippingCostFreeFrom(subtotal) == IF subtotal >= 1000 THEN 0 ELSE 100

\* subtotal > 1000 ? 0 : 100
ShippingCost(subtotal) == IF subtotal > 1000 THEN 0 ELSE 100

\* The pairs <<subtotal, discount>>, for subtotals up to 4000 and the discounts 10 and 29,
\* whose product in IEEE-754 doubles, subtotal * (discount / 100), is the double just below
\* the exact value, the exact value being an integer and a half.  (No subtotal up to
\* 2000000 has this with subtotal * 0.18.)
BelowHalf ==
  {<<50, 29>>, <<750, 29>>, <<850, 29>>, <<1450, 29>>, <<1550, 29>>, <<1650, 29>>,
   <<1750, 29>>, <<2850, 29>>, <<2950, 29>>, <<3050, 29>>, <<3150, 29>>, <<3250, 29>>,
   <<3350, 29>>, <<3450, 29>>}

\* Math.round(subtotal * (coupon.discount / 100)), in doubles
PercentOf(subtotal, d) ==
  IF <<subtotal, d>> \in BelowHalf THEN Round(subtotal * d, 100) - 1
  ELSE Round(subtotal * d, 100)

\* the coupon branch of the route
Discount(subtotal, coupon) ==
  IF coupon.code = "" THEN 0
  ELSE IF coupon.type = "percentage" THEN PercentOf(subtotal, coupon.discount)
  ELSE IF coupon.type = "fixed" THEN coupon.discount
  ELSE 0

\* a total that forgets the discount
PricingWithoutDiscount(its, coupon) ==
  LET subtotal == Subtotal(its)
  IN [subtotal |-> subtotal,
      tax |-> Tax(subtotal),
      shippingCost |-> ShippingCost(subtotal),
      discount |-> Discount(subtotal, coupon),
      total |-> subtotal + Tax(subtotal) + ShippingCost(subtotal)]

\* subtotal, tax, shippingCost, discount and total of the route
Pricing(its, coupon) ==
  LET subtotal == Subtotal(its)
  IN [subtotal |-> subtotal,
      tax |-> Tax(subtotal),
      shippingCost |-> ShippingCost(subtotal),
      discount |-> Discount(subtotal, coupon),
      total |-> subtotal + Tax(subtotal) + ShippingCost(subtotal) - Discount(subtotal, coupon)]

(* ---------------------------- createOrder ----------------------------- *)

\* requests that will still insert an order
Creating == {r \in Reqs : req[r].op = "create" /\ req[r].pc \in {"items", "save"}}

\* a check that only asks whether any product was found
CountMatchesAny(nFound, nIds) == nFound > 0

\* products.length !== productIds.length
CountMatches(nFound, nIds) == nFound = nIds

\* product.stock < item.quantity
InsufficientStock(have, want) == have < want

\* productSchema.stock: min 0
StockValid(s) == s >= 0

\* generateOrderNumber(): ORD-<Date.now() in base 36>-<5 random base-36 digits>
generateOrderNumber(t, rnd) == <<"ORD", t, rnd>>

\* the calendar day of an instant (year, month and day of new Date())
DayOf(t) == t

\* the SS<yy><mm><dd><4-digit sequence> number of the Order model's pre-save hook
HookOrderNumber(t) ==
  LET today == {k \in OrderIds : /\ orders[k].orderNumber[1] = "SS"
                                 /\ orders[k].orderNumber[2] = DayOf(t)}
      last == IF today = {} THEN 0
              ELSE CHOOSE s \in {orders[k].orderNumber[3] : k \in today} :
                     \A k \in today : orders[k].orderNumber[3] <= s
  IN <<"SS", DayOf(t), last + 1>>

\* the orderSchema validators that a createOrder request can fail
OrderValid(doc) ==
  /\ doc.orderNumber # NoNumber
  /\ doc.payStatus \in PaymentStatuses
  /\ doc.method \in PaymentMethods
  /\ doc.status \in OrderStatuses
  /\ doc.coupon.type \in {"none", "percentage", "fixed"}

\* a hook that starts the timeline afresh
TimelineReplace(timeline, status) == <<status>>

\* a hook that leaves the timeline alone
TimelineKeep(timeline, status) == timeline

\* this.timeline.push({status: this.status, ...}), saved as a $push
TimelinePush(timeline, status) == Append(timeline, status)

\* a save that writes the modified paths and loses the line items
SaveFieldsLosingItems(doc, set) ==
  [f \in DOMAIN doc |-> IF f \in DOMAIN set THEN set[f] ELSE IF f = "items" THEN <<>> ELSE doc[f]]

\* doc.save() of a loaded document: $set of the modified paths, the rest as persisted
SaveFields(doc, set) == [f \in DOMAIN doc |-> IF f \in DOMAIN set THEN set[f] ELSE doc[f]]

\* orderSchema.pre('save') on a new document
PreSaveNew(doc, t) ==
  LET numbered == IF doc.orderNumber = NoNumber
                  THEN [doc EXCEPT !.orderNumber = HookOrderNumber(t)] ELSE doc
  IN [numbered EXCEPT !.timeline = TimelinePush(@, numbered.status)]

\* a collection without the unique index
UniqueNumberNoIndex(num) == TRUE

\* the unique index on orderNumber
UniqueNumber(num) == \A k \in OrderIds : orders[k].orderNumber # num

\* POST /api/orders up to the validation of the product ids
CreateBegin(r, u, its, m, payIn, po, coupon, cap) ==
  /\ req[r].pc = "idle"
  /\ Len(orders) + Cardinality(Creating) < cap
  /\ LET ids == {its[k].product : k \in 1..Len(its)}
         docs == {p \in ids \cap Products : active[p]}
         started == [Idle EXCEPT !.op = "create", !.user = u, !.items = its, !.method = m,
                                 !.payIn = payIn, !.po = po, !.coupon = coupon,
                                 !.found = [p \in docs |-> [stock |-> stock[p],
                                                            price |-> price[p]]]]
     IN req' = [req EXCEPT ![r] =
                  IF CountMatches(Cardinality(docs), Len(its))
                  THEN [started EXCEPT !.pc = "items", !.i = 1]
                  ELSE [started EXCEPT !.pc = "done", !.result = "NotAvailable"]]
  /\ UNCHANGED <<stock, active, price, orders, cart, now, webhookSecret>>

\* one turn of the per-item loop: the checks, then product.save()
CreateItem(r) ==
  /\ req[r].op = "create" /\ req[r].pc = "items"
  /\ LET it == req[r].items[req[r].i]
         p == it.product
         last == req[r].i = Len(req[r].items)
     IN IF p \notin DOMAIN req[r].found
        THEN /\ req' = [req EXCEPT ![r] = Done(r, "ProductNotFound")]
             /\ UNCHANGED stock
        ELSE IF InsufficientStock(req[r].found[p].stock, it.quantity)
        THEN /\ req' = [req EXCEPT ![r] = Done(r, "InsufficientStock")]
             /\ UNCHANGED stock
        ELSE IF ~StockValid(req[r].found[p].stock - it.quantity)
        THEN /\ req' = [req EXCEPT ![r] = Done(r, "ValidationError")]
             /\ UNCHANGED stock
        ELSE LET left == req[r].found[p].stock - it.quantity
                 line == [product |-> p, quantity |-> it.quantity,
                          price |-> req[r].found[p].price]
             IN /\ stock' = [stock EXCEPT ![p] = left]
                /\ req' = [req EXCEPT ![r] =
                             [req[r] EXCEPT !.found[p].stock = left,
                                            !.orderItems = Append(@, line),
                                            !.net[p] = @ + (left - stock[p]),
                                            !.i = @ + 1,
                                            !.pc = IF last THEN "save" ELSE "items"]]
  /\ UNCHANGED <<active, price, orders, cart, now, webhookSecret>>

\* an order that starts pending whatever the method
InitialStatusPending(method) == "pending"

\* paymentInfo.method === 'cod' ? 'confirmed' : 'pending'
InitialStatus(method) == IF method = "cod" THEN "confirmed" ELSE "pending"

\* new Order({...}) of the route
NewOrder(r, rnd) ==
  [orderNumber |-> generateOrderNumber(now, rnd),
   user |-> req[r].user,
   items |-> req[r].orderItems,
   method |-> req[r].method,
   payStatus |-> IF req[r].payIn = "absent" THEN "pending" ELSE req[r].payIn,
   providerOrderId |-> req[r].po,
   paymentId |-> NoId,
   signature |-> NoSignature,
   failureReason |-> NoReason,
   pricing |-> Pricing(req[r].orderItems, req[r].coupon),
   coupon |-> req[r].coupon,
   status |-> InitialStatus(req[r].method),
   cancellation |-> NoCancellation,
   timeline |-> <<>>,
   restored |-> [k \in 1..Len(req[r].orderItems) |-> 0]]

\* generateOrderNumber(), new Order(...), order.save()
CreateSave(r, rnd) ==
  /\ req[r].op = "create" /\ req[r].pc = "save"
  /\ LET doc == NewOrder(r, rnd)
     IN IF ~OrderValid(doc)
        THEN /\ req' = [req EXCEPT ![r] = Done(r, "ValidationError")]
             /\ UNCHANGED orders
        ELSE LET saved == PreSaveNew(doc, now)
             IN IF ~UniqueNumber(saved.orderNumber)
                THEN /\ req' = [req EXCEPT ![r] = Done(r, "DuplicateKey")]
                     /\ UNCHANGED orders
                ELSE /\ orders' = Append(orders, saved)
                     /\ req' = [req EXCEPT ![r] =
                                  [req[r] EXCEPT !.pc = "clearCart", !.oid = Len(orders) + 1]]
  /\ UNCHANGED <<stock, active, price, cart, now, webhookSecret>>

\* a route that leaves the cart as it is
KeptCart(c) == c

\* user.cart = []
ClearedCart(c) == {}

\* user.cart = []; user.save(); 201
CreateClearCart(r) ==
  /\ req[r].op = "create" /\ req[r].pc = "clearCart"
  /\ cart' = [cart EXCEPT ![req[r].user] = ClearedCart(@)]
  /\ req' = [req EXCEPT ![r] =
               [req[r] EXCEPT !.pc = "done", !.result = "Created", !.cleared = TRUE,
                              !.dropped = cart[req[r].user]]]
  /\ UNCHANGED <<stock, active, price, orders, now, webhookSecret>>

(* ---------------------------- cancelOrder ----------------------------- *)

\* a check that also lets a shipped order through
CanCancelShipped(st) == st \in {"pending", "confirmed", "processing", "shipped"}

\* ['pending', 'confirmed', 'processing'].includes(order.status)
CanCancel(st) == st \in {"pending", "confirmed", "processing"}

\* a restore that decrements again
RestoreAmountNegated(q) == 0 - q

\* a restore that gives back twice the quantity
RestoreAmountDouble(q) == 2 * q

\* { $inc: { stock: item.quantity } }
RestoreAmount(q) == q

\* a cancellation record that never owes a refund
CancellationWithoutRefund(o, reason) ==
  [set |-> TRUE,
   reason |-> IF reason = "" THEN "Cancelled by customer" ELSE reason,
   refundStatus |-> "processed",
   refundAmount |-> 0]

\* the cancellation record the route builds from the order it loaded
Cancellation(o, reason) ==
  [set |-> TRUE,
   reason |-> IF reason = "" THEN "Cancelled by customer" ELSE reason,
   refundStatus |-> IF o.payStatus = "completed" THEN "pending" ELSE "processed",
   refundAmount |-> IF o.payStatus = "completed" THEN o.pricing.total ELSE 0]

\* requests that will still push an entry on the timeline of order o
Writers(o) ==
  {r \in Reqs : req[r].oid = o
                 /\ req[r].pc \in {"cancelSave", "statusSave", "verifySave", "codSave"}}

\* room for one more timeline entry
Room(o) == Len(orders[o].timeline) + Cardinality(Writers(o)) < MaxTimeline

\* PUT /api/orders/:id/cancel up to the status check
CancelBegin(r, u, o, reason) ==
  /\ req[r].pc = "idle"
  /\ (o \in OrderIds /\ orders[o].user = u /\ CanCancel(orders[o].status)) => Room(o)
  /\ LET started == [Idle EXCEPT !.op = "cancel", !.user = u, !.oid = o, !.reason = reason]
     IN req' = [req EXCEPT ![r] =
          IF o \notin OrderIds THEN [started EXCEPT !.pc = "done", !.result = "NotFound"]
          ELSE IF orders[o].user # u THEN [started EXCEPT !.pc = "done", !.result = "Forbidden"]
          ELSE IF ~CanCancel(orders[o].status)
          THEN [started EXCEPT !.pc = "done", !.result = "InvalidTransition"]
          ELSE [started EXCEPT !.pc = "cancelSave",
                               !.set = [status |-> "cancelled",
                                        cancellation |-> Cancellation(orders[o], reason)]]]
  /\ UNCHANGED <<stock, active, price, orders, cart, now, webhookSecret>>

\* order.save(): $set of status and cancellation, $push of the hook's timeline entry
CancelSave(r) ==
  /\ req[r].op = "cancel" /\ req[r].pc = "cancelSave"
  /\ LET o == req[r].oid
     IN orders' = [orders EXCEPT ![o] =
                     [SaveFields(@, req[r].set) EXCEPT
                        !.timeline = TimelinePush(@, req[r].set.status)]]
  /\ req' = [req EXCEPT ![r] = [req[r] EXCEPT !.pc = "restore", !.i = 1]]
  /\ UNCHANGED <<stock, active, price, cart, now, webhookSecret>>

\* one turn of the restore loop: Product.findByIdAndUpdate(item.product, {$inc})
CancelRestore(r) ==
  /\ req[r].op = "cancel" /\ req[r].pc = "restore"
  /\ LET its == orders[req[r].oid].items
         it == its[req[r].i]
         last == req[r].i = Len(its)
     IN /\ stock' = [stock EXCEPT ![it.product] = @ + RestoreAmount(it.quantity)]
        /\ orders' = [orders EXCEPT ![req[r].oid].restored[req[r].i] = @ + 1]
        /\ req' = [req EXCEPT ![r] =
                     [req[r] EXCEPT !.net[it.product] = @ + RestoreAmount(it.quantity),
                                    !.i = @ + 1,
                                    !.pc = IF last THEN "done" ELSE "restore",
                                    !.result = IF last THEN "Cancelled" ELSE "none"]]
  /\ UNCHANGED <<active, price, cart, now, webhookSecret>>

\* Product.findByIdAndUpdate rejects in the restore loop: the catch block answers 500
CancelRestoreFails(r) ==
  /\ req[r].op = "cancel" /\ req[r].pc = "restore"
  /\ req' = [req EXCEPT ![r] = Done(r, "Error")]
  /\ UNCHANGED <<stock, active, price, orders, cart, now, webhookSecret>>

(* ------------------------- updateOrderStatus -------------------------- *)

\* PUT /api/orders/:id/status up to order.status = status
StatusBegin(r, o, st) ==
  /\ req[r].pc = "idle"
  /\ (o \in OrderIds /\ st # orders[o].status) => Room(o)
  /\ LET started == [Idle EXCEPT !.op = "status", !.oid = o]
     IN req' = [req EXCEPT ![r] =
          IF o \notin OrderIds THEN [started EXCEPT !.pc = "done", !.result = "NotFound"]
          ELSE [started EXCEPT !.pc = "statusSave",
                               !.set = IF st # orders[o].status
                                       THEN [status |-> st] ELSE Nothing]]
  /\ UNCHANGED <<stock, active, price, orders, cart, now, webhookSecret>>

\* order.save(): nothing is written unless the status was modified
StatusSave(r) ==
  /\ req[r].op = "status" /\ req[r].pc = "statusSave"
  /\ LET o == req[r].oid
     IN orders' = IF "status" \in DOMAIN req[r].set
                  THEN [orders EXCEPT ![o] =
                          [SaveFields(@, req[r].set) EXCEPT
                             !.timeline = TimelinePush(@, req[r].set.status)]]
                  ELSE orders
  /\ req' = [req EXCEPT ![r] = Done(r, "Updated")]
  /\ UNCHANGED <<stock, active, price, cart, now, webhookSecret>>

(* ------------------------------ payment ------------------------------- *)

\* `${razorpay_order_id}|${razorpay_payment_id}`
Join(a, b) == a \o <<"|">> \o b

\* crypto.createHmac('sha256', key).update(msg).digest('hex'): a value that tells apart
\* any two keys and any two messages
Hmac(key, msg) == [key |-> key, msg |-> msg]

\* JSON.stringify(req.body) of a webhook delivery
Stringify(body) == <<"event", body.event, "order_id", body.order_id, "error_description", body.reason>>

\* a comparison that accepts every signature
SignatureMatchesAny(generated, given) == TRUE

\* generated_signature !== razorpay_signature / webhookSignature
SignatureMatches(generated, given) == generated = given

\* POST /api/payment/razorpay/verify up to the assignments to the order it loaded
VerifyBegin(r, u, o, po, pp, sig) ==
  /\ req[r].pc = "idle"
  /\ (/\ SignatureMatches(Hmac(KeySecret, Join(po, pp)), sig)
      /\ o \in OrderIds /\ orders[o].user = u /\ orders[o].status # "confirmed") => Room(o)
  /\ LET started == [Idle EXCEPT !.op = "verify", !.user = u, !.oid = o, !.po = po, !.pp = pp,
                                 !.sig = sig]
     IN req' = [req EXCEPT ![r] =
          IF ~SignatureMatches(Hmac(KeySecret, Join(po, pp)), sig)
          THEN [started EXCEPT !.pc = "done", !.result = "SignatureMismatch"]
          ELSE IF o \notin OrderIds THEN [started EXCEPT !.pc = "done", !.result = "NotFound"]
          ELSE IF orders[o].user # u THEN [started EXCEPT !.pc = "done", !.result = "Forbidden"]
          ELSE LET paymentInfo == [method |-> orders[o].method,
                                   payStatus |-> "completed",
                                   providerOrderId |-> po,
                                   paymentId |-> pp,
                                   signature |-> sig,
                                   failureReason |-> orders[o].failureReason]
               IN [started EXCEPT !.pc = "verifySave",
                                  !.set = IF orders[o].status # "confirmed"
                                          THEN [paymentInfo |-> paymentInfo, status |-> "confirmed"]
                                          ELSE [paymentInfo |-> paymentInfo]]]
  /\ UNCHANGED <<stock, active, price, orders, cart, now, webhookSecret>>

\* order.save(): $set of the whole paymentInfo (paidAt is new each time), $set of status and
\* $push of the hook's timeline entry when the status was modified
VerifySave(r) ==
  /\ req[r].op = "verify" /\ req[r].pc = "verifySave"
  /\ LET o == req[r].oid
         set == req[r].set
         paid == [orders[o] EXCEPT !.method = set.paymentInfo.method,
                                   !.payStatus = set.paymentInfo.payStatus,
                                   !.providerOrderId = set.paymentInfo.providerOrderId,
                                   !.paymentId = set.paymentInfo.paymentId,
                                   !.signature = set.paymentInfo.signature,
                                   !.failureReason = set.paymentInfo.failureReason]
     IN orders' = [orders EXCEPT ![o] =
                     IF "status" \in DOMAIN set
                     THEN [paid EXCEPT !.status = set.status,
                                       !.timeline = TimelinePush(@, set.status)]
                     ELSE paid]
  /\ req' = [req EXCEPT ![r] = Done(r, "Verified")]
  /\ UNCHANGED <<stock, active, price, cart, now, webhookSecret>>

\* Order.findOne({'paymentInfo.orderId': id}): the first order that matches, 0 for none
FindByProviderOrder(id) ==
  LET hits == {o \in OrderIds : orders[o].providerOrderId = id}
  IN IF hits = {} THEN 0 ELSE CHOOSE o \in hits : \A h \in hits : o <= h

\* POST /api/payment/razorpay/webhook up to the assignments to the order it found
WebhookBegin(r, body, sig) ==
  /\ req[r].pc = "idle"
  /\ LET started == [Idle EXCEPT !.op = "webhook", !.event = body.event, !.po = body.order_id,
                                 !.reason = body.reason, !.sig = sig]
         o == FindByProviderOrder(body.order_id)
         changed == [payStatus |-> "failed", failureReason |-> body.reason]
     IN req' = [req EXCEPT ![r] =
          IF /\ webhookSecret # NoSecret
             /\ ~SignatureMatches(Hmac(webhookSecret, Stringify(body)), sig)
          THEN [started EXCEPT !.pc = "done", !.result = "SignatureMismatch"]
          ELSE IF body.event = "payment.failed" /\ o # 0
          THEN [started EXCEPT !.pc = "webhookSave", !.oid = o,
                               !.set = [f \in {g \in DOMAIN changed : changed[g] # orders[o][g]}
                                          |-> changed[f]]]
          ELSE [started EXCEPT !.pc = "done", !.result = "success"]]
  /\ UNCHANGED <<stock, active, price, orders, cart, now, webhookSecret>>

\* failedOrder.save(): $set of the paymentInfo paths that were modified
WebhookSave(r) ==
  /\ req[r].op = "webhook" /\ req[r].pc = "webhookSave"
  /\ LET o == req[r].oid
         set == req[r].set
     IN orders' = [orders EXCEPT ![o] = SaveFields(@, set)]
  /\ req' = [req EXCEPT ![r] = Done(r, "success")]
  /\ UNCHANGED <<stock, active, price, cart, now, webhookSecret>>

\* POST /api/payment/cod/process up to the assignments to the order it loaded
CodBegin(r, u, o) ==
  /\ req[r].pc = "idle"
  /\ (/\ o \in OrderIds /\ orders[o].user = u /\ orders[o].method = "cod"
      /\ orders[o].status # "confirmed") => Room(o)
  /\ LET started == [Idle EXCEPT !.op = "cod", !.user = u, !.oid = o]
         changed == [status |-> "confirmed", payStatus |-> "pending"]
     IN req' = [req EXCEPT ![r] =
          IF o \notin OrderIds THEN [started EXCEPT !.pc = "done", !.result = "NotFound"]
          ELSE IF orders[o].user # u THEN [started EXCEPT !.pc = "done", !.result = "Forbidden"]
          ELSE IF orders[o].method # "cod"
          THEN [started EXCEPT !.pc = "done", !.result = "InvalidMethod"]
          ELSE [started EXCEPT !.pc = "codSave",
                               !.set = [f \in {g \in DOMAIN changed : changed[g] # orders[o][g]}
                                          |-> changed[f]]]]
  /\ UNCHANGED <<stock, active, price, orders, cart, now, webhookSecret>>

\* order.save(): $set of the modified paths, $push of the hook's timeline entry when the
\* status was modified
CodSave(r) ==
  /\ req[r].op = "cod" /\ req[r].pc = "codSave"
  /\ LET o == req[r].oid
         set == req[r].set
         written == SaveFields(orders[o], set)
     IN orders' = [orders EXCEPT ![o] =
                     IF "status" \in DOMAIN set
                     THEN [written EXCEPT !.timeline = TimelinePush(@, set.status)]
                     ELSE written]
  /\ req' = [req EXCEPT ![r] = Done(r, "Processed")]
  /\ UNCHANGED <<stock, active, price, cart, now, webhookSecret>>

(* --------------------------- product update --------------------------- *)

\* body('stock').optional().isInt({ min: 0 }), body('price').optional().isFloat({ min: 0 })
BodyValid(body) ==
  /\ "stock" \in DOMAIN body => body.stock >= 0
  /\ "price" \in DOMAIN body => body.price >= 0

\* PUT /api/products/:id up to Object.assign(product, productData)
ProductBegin(r, p, body) ==
  /\ req[r].pc = "idle"
  /\ LET started == [Idle EXCEPT !.op = "product", !.pid = p]
         read == [stock |-> stock[p], isActive |-> active[p], price |-> price[p]]
     IN req' = [req EXCEPT ![r] =
          IF ~BodyValid(body) THEN [started EXCEPT !.pc = "done", !.result = "ValidationError"]
          ELSE [started EXCEPT !.pc = "productSave",
                               !.set = [f \in {g \in DOMAIN body : body[g] # read[g]} |-> body[f]]]]
  /\ UNCHANGED <<stock, active, price, orders, cart, now, webhookSecret>>

\* product.save(): validation of the modified paths, then $set of them
ProductSave(r) ==
  /\ req[r].op = "product" /\ req[r].pc = "productSave"
  /\ LET p == req[r].pid
         set == req[r].set
         ok == "stock" \in DOMAIN set => StockValid(set.stock)
     IN /\ stock' = IF ok /\ "stock" \in DOMAIN set THEN [stock EXCEPT ![p] = set.stock] ELSE stock
        /\ active' = IF ok /\ "isActive" \in DOMAIN set
                     THEN [active EXCEPT ![p] = set.isActive] ELSE active
        /\ price' = IF ok /\ "price" \in DOMAIN set THEN [price EXCEPT ![p] = set.price] ELSE price
        /\ req' = [req EXCEPT ![r] = Done(r, IF ok THEN "Updated" ELSE "ValidationError")]
  /\ UNCHANGED <<orders, cart, now, webhookSecret>>

(* ------------------------------- cart --------------------------------- *)

\* POST /api/cart/add with quantity 1: the product must be active and in stock
CartAdd(u, p) ==
  /\ active[p] /\ stock[p] >= 1
  /\ p \notin cart[u]
  /\ cart' = [cart EXCEPT ![u] = @ \cup {p}]
  /\ UNCHANGED <<stock, active, price, orders, now, webhookSecret, req>>

(* ------------------------------ the rest ------------------------------ *)

\* the response has been sent: the handler is gone
Finish(r) ==
  /\ req[r].pc = "done"
  /\ req' = [req EXCEPT ![r] = Idle]
  /\ UNCHANGED <<stock, active, price, orders, cart, now, webhookSecret>>

\* time passes
Tick ==
  /\ now < MaxNow
  /\ now' = now + 1
  /\ UNCHANGED <<stock, active, price, orders, cart, webhookSecret, req>>

(* --------------------------- specifications --------------------------- *)

\* createOrder requests racing for stock and for order numbers
NextCreate ==
  \/ \E r \in Reqs, its \in ItemLists(Products, MaxItems, MaxQty), payIn \in {"absent", "bogus"} :
       CreateBegin(r, "u1", its, "razorpay", payIn, NoId, NoCoupon, MaxOrders)
  \/ \E r \in Reqs : CreateItem(r)
  \/ \E r \in Reqs, rnd \in 0..MaxRandom : CreateSave(r, rnd)
  \/ \E r \in Reqs : CreateClearCart(r)
  \/ \E r \in Reqs : Finish(r)
  \/ Tick

SpecCreate == Init /\ [][NextCreate]_vars

\* createOrder requests racing for order numbers only
NextNumbers ==
  \/ \E r \in Reqs, p \in Products :
       CreateBegin(r, "u1", <<[product |-> p, quantity |-> 1]>>, "razorpay", "absent", NoId,
                   NoCoupon, MaxOrders)
  \/ \E r \in Reqs : CreateItem(r)
  \/ \E r \in Reqs, rnd \in 0..MaxRandom : CreateSave(r, rnd)
  \/ \E r \in Reqs : CreateClearCart(r)
  \/ \E r \in Reqs : Finish(r)
  \/ Tick

SpecNumbers == Init /\ [][NextNumbers]_vars

\* the orders placed while the stock is edited: product A alone, or B and A together
StockLists ==
  {<<[product |-> "A", quantity |-> 1]>>,
   <<[product |-> "B", quantity |-> 1], [product |-> "A", quantity |-> 1]>>}

\* orders are placed and cancelled while the admin edits the stock of product A
NextStock ==
  \/ \E r \in Reqs, its \in StockLists :
       CreateBegin(r, "u1", its, "razorpay", "absent", NoId, NoCoupon, MaxOrders)
  \/ \E r \in Reqs : CreateItem(r)
  \/ \E r \in Reqs : CreateSave(r, 0)
  \/ \E r \in Reqs : CreateClearCart(r)
  \/ \E r \in Reqs, o \in 1..MaxOrders : CancelBegin(r, "u1", o, "")
  \/ \E r \in Reqs : CancelSave(r)
  \/ \E r \in Reqs : CancelRestore(r)
  \/ \E r \in Reqs, s \in (0 - 1)..MaxStock : ProductBegin(r, "A", [stock |-> s])
  \/ \E r \in Reqs : ProductSave(r)
  \/ \E r \in Reqs : Finish(r)

SpecStock == Init /\ [][NextStock]_vars

\* orders are placed while the admin takes products off the catalog and carts are filled
NextCatalog ==
  \/ \E r \in Reqs, its \in ItemLists(Products \cup {Missing}, MaxItems, 1) :
       CreateBegin(r, "u1", its, "razorpay", "absent", NoId, NoCoupon, 1)
  \/ \E r \in Reqs : CreateItem(r)
  \/ \E r \in Reqs : CreateSave(r, 0)
  \/ \E r \in Reqs : CreateClearCart(r)
  \/ \E r \in Reqs, p \in Products, b \in BOOLEAN : ProductBegin(r, p, [isActive |-> b])
  \/ \E r \in Reqs : ProductSave(r)
  \/ \E p \in Products : CartAdd("u1", p)
  \/ \E r \in Reqs : Finish(r)

SpecCatalog == Init /\ [][NextCatalog]_vars

\* an order is placed, then cancelled by a customer and moved on by the admin
NextLife ==
  \/ \E r \in Reqs, p \in Products, m \in PaymentMethods :
       CreateBegin(r, "u1", <<[product |-> p, quantity |-> 1]>>, m, "absent", NoId, NoCoupon, 1)
  \/ \E r \in Reqs : CreateItem(r)
  \/ \E r \in Reqs : CreateSave(r, 0)
  \/ \E r \in Reqs : CreateClearCart(r)
  \/ \E r \in Reqs, u \in Users, o \in 1..MaxOrders : CancelBegin(r, u, o, "")
  \/ \E r \in Reqs : CancelSave(r)
  \/ \E r \in Reqs : CancelRestore(r)
  \/ \E r \in Reqs, o \in 1..MaxOrders, st \in OrderStatuses : StatusBegin(r, o, st)
  \/ \E r \in Reqs : StatusSave(r)
  \/ \E r \in Reqs : Finish(r)

SpecLife == Init /\ [][NextLife]_vars

\* an order is placed and cancelled, the restore loop may fail, and the customer repeats
\* the cancellation
NextRetry ==
  \/ \E r \in Reqs, its \in StockLists :
       CreateBegin(r, "u1", its, "razorpay", "absent", NoId, NoCoupon, 1)
  \/ \E r \in Reqs : CreateItem(r)
  \/ \E r \in Reqs : CreateSave(r, 0)
  \/ \E r \in Reqs : CreateClearCart(r)
  \/ \E r \in Reqs : CancelBegin(r, "u1", 1, "")
  \/ \E r \in Reqs : CancelSave(r)
  \/ \E r \in Reqs : CancelRestore(r)
  \/ \E r \in Reqs : CancelRestoreFails(r)
  \/ \E r \in Reqs : Finish(r)

\* every handler runs on to its response, and the customer keeps repeating the request;
\* nothing obliges a restore to fail
FairRetry ==
  /\ \A r \in Reqs : WF_vars(CancelSave(r)) /\ WF_vars(CancelRestore(r)) /\ WF_vars(Finish(r))
  /\ WF_vars(\E r \in Reqs : CancelBegin(r, "u1", 1, ""))

SpecRetry == Init /\ [][NextRetry]_vars /\ FairRetry

\* the ids the payment provider hands out, and the requests built from them
ProviderOrderIds == {<<"order_1">>, <<"order_2">>}
ProviderPaymentIds == {<<"pay_1">>}

\* razorpay_signature of a verify request: the provider's signature of some order and
\* payment id, or one made without the key
VerifySignatures ==
  {Hmac(k, Join(po, pp)) : k \in {KeySecret, "guess"}, po \in ProviderOrderIds,
                           pp \in ProviderPaymentIds}

\* req.body of a webhook delivery
WebhookBodies ==
  [event : {"payment.captured", "payment.failed", "order.paid"}, order_id : ProviderOrderIds,
   reason : {"declined"}]

\* x-razorpay-signature of a delivery: the provider's, one made without the secret, or none
WebhookSignatures(body) ==
  {Hmac(WebhookSecret, Stringify(body)), Hmac("guess", Stringify(body)), NoSignature}

\* the server starts with the webhook secret configured or not
InitAnyConfig ==
  /\ stock = [p \in Products |-> InitStock]
  /\ active = [p \in Products |-> TRUE]
  /\ price = [p \in Products |-> IF p = "A" THEN 500 ELSE 1000]
  /\ orders = <<>>
  /\ cart = [u \in Users |-> {}]
  /\ now = 0
  /\ webhookSecret \in {WebhookSecret, NoSecret}
  /\ req = [r \in Reqs |-> Idle]

\* the provider's signature of a verify request
Signed(po, pp) == Hmac(KeySecret, Join(po, pp))

\* an order is placed and paid for: client verification, provider webhooks and COD
\* processing
NextPay ==
  \/ \E r \in Reqs, m \in {"cod", "razorpay"}, po \in {NoId, <<"order_1">>} :
       CreateBegin(r, "u1", <<[product |-> "A", quantity |-> 1]>>, m, "absent", po, NoCoupon, 1)
  \/ \E r \in Reqs : CreateItem(r)
  \/ \E r \in Reqs : CreateSave(r, 0)
  \/ \E r \in Reqs : CreateClearCart(r)
  \/ \E r \in Reqs : VerifyBegin(r, "u1", 1, <<"order_1">>, <<"pay_1">>,
                                 Signed(<<"order_1">>, <<"pay_1">>))
  \/ \E r \in Reqs : VerifySave(r)
  \/ \E r \in Reqs, body \in WebhookBodies : \E sig \in WebhookSignatures(body) :
       WebhookBegin(r, body, sig)
  \/ \E r \in Reqs : WebhookSave(r)
  \/ \E r \in Reqs : CodBegin(r, "u1", 1)
  \/ \E r \in Reqs : CodSave(r)
  \/ \E r \in Reqs : Finish(r)

SpecPay == InitAnyConfig /\ [][NextPay]_vars

\* verify requests with every signature, from the owner and from someone else, while the
\* admin moves the order on
NextVerify ==
  \/ \E r \in Reqs :
       CreateBegin(r, "u1", <<[product |-> "A", quantity |-> 1]>>, "razorpay", "absent", NoId,
                   NoCoupon, 1)
  \/ \E r \in Reqs : CreateItem(r)
  \/ \E r \in Reqs : CreateSave(r, 0)
  \/ \E r \in Reqs : CreateClearCart(r)
  \/ \E r \in Reqs, u \in Users, po \in ProviderOrderIds, pp \in ProviderPaymentIds,
        sig \in VerifySignatures : VerifyBegin(r, u, 1, po, pp, sig)
  \/ \E r \in Reqs : VerifySave(r)
  \/ \E r \in Reqs, st \in {"shipped"} : StatusBegin(r, 1, st)
  \/ \E r \in Reqs : StatusSave(r)
  \/ \E r \in Reqs : Finish(r)

SpecVerify == Init /\ [][NextVerify]_vars

\* a payment is confirmed more than once while the admin moves the order on, the customer
\* cancels it and the provider reports a failure
NextReconcile ==
  \/ \E r \in Reqs, m \in {"cod", "razorpay"} :
       CreateBegin(r, "u1", <<[product |-> "A", quantity |-> 1]>>, m, "absent", NoId,
                   NoCoupon, 1)
  \/ \E r \in Reqs : CreateItem(r)
  \/ \E r \in Reqs : CreateSave(r, 0)
  \/ \E r \in Reqs : CreateClearCart(r)
  \/ \E r \in Reqs : VerifyBegin(r, "u1", 1, <<"order_1">>, <<"pay_1">>,
                                 Signed(<<"order_1">>, <<"pay_1">>))
  \/ \E r \in Reqs : VerifySave(r)
  \/ \E r \in Reqs :
       LET body == [event |-> "payment.failed", order_id |-> <<"order_1">>, reason |-> "declined"]
       IN WebhookBegin(r, body, Hmac(WebhookSecret, Stringify(body)))
  \/ \E r \in Reqs : WebhookSave(r)
  \/ \E r \in Reqs, st \in OrderStatuses : StatusBegin(r, 1, st)
  \/ \E r \in Reqs : StatusSave(r)
  \/ \E r \in Reqs : CancelBegin(r, "u1", 1, "")
  \/ \E r \in Reqs : CancelSave(r)
  \/ \E r \in Reqs : CancelRestore(r)
  \/ \E r \in Reqs : Finish(r)

SpecReconcile == Init /\ [][NextReconcile]_vars

\* an order is paid for or not, and the customer cancels it with or without a reason
NextRefund ==
  \/ \E r \in Reqs :
       CreateBegin(r, "u1", <<[product |-> "A", quantity |-> 1]>>, "razorpay", "absent", NoId,
                   NoCoupon, 1)
  \/ \E r \in Reqs : CreateItem(r)
  \/ \E r \in Reqs : CreateSave(r, 0)
  \/ \E r \in Reqs : CreateClearCart(r)
  \/ \E r \in Reqs : VerifyBegin(r, "u1", 1, <<"order_1">>, <<"pay_1">>,
                                 Signed(<<"order_1">>, <<"pay_1">>))
  \/ \E r \in Reqs : VerifySave(r)
  \/ \E r \in Reqs, reason \in {"", "changed my mind"} : CancelBegin(r, "u1", 1, reason)
  \/ \E r \in Reqs : CancelSave(r)
  \/ \E r \in Reqs : CancelRestore(r)
  \/ \E r \in Reqs : Finish(r)

SpecRefund == Init /\ [][NextRefund]_vars

\* catalog prices, and the coupons of createOrder requests: none, percentage and fixed ones,
\* one without a code and one of a type the schema does not know
Prices == {25, 500, 1000}
Coupons ==
  {NoCoupon,
   [code |-> "SAVE10", type |-> "percentage", discount |-> 10],
   [code |-> "SAVE29", type |-> "percentage", discount |-> 29],
   [code |-> "FLAT100", type |-> "fixed", discount |-> 100],
   [code |-> "FLAT5000", type |-> "fixed", discount |-> 5000],
   [code |-> "", type |-> "percentage", discount |-> 10],
   [code |-> "HALF", type |-> "half", discount |-> 50]}

\* the catalog starts with any of the prices
InitAnyPrices ==
  /\ stock = [p \in Products |-> InitStock]
  /\ active = [p \in Products |-> TRUE]
  /\ price \in [Products -> Prices]
  /\ orders = <<>>
  /\ cart = [u \in Users |-> {}]
  /\ now = 0
  /\ webhookSecret = WebhookSecret
  /\ req = [r \in Reqs |-> Idle]

\* an order is priced, with or without a coupon, and cancelled later
NextPricing ==
  \/ \E its \in ItemLists(Products, MaxItems, 1), coupon \in Coupons :
       CreateBegin("r1", "u1", its, "razorpay", "absent", NoId, coupon, 1)
  \/ CreateItem("r1")
  \/ CreateSave("r1", 0)
  \/ CreateClearCart("r1")
  \/ CancelBegin("r2", "u1", 1, "")
  \/ CancelSave("r2")
  \/ CancelRestore("r2")
  \/ \E r \in Reqs : Finish(r)

SpecPricing == InitAnyPrices /\ [][NextPricing]_vars

\* an order is placed; afterwards the admin edits the catalog price and moves the order on,
\* the payment is verified or reported failed, and the customer cancels
NextFrame ==
  \/ \E r \in Reqs : CreateBegin(r, "u1", <<[product |-> "A", quantity |-> 1]>>, "razorpay",
                                 "absent", <<"order_1">>, NoCoupon, 1)
  \/ \E r \in Reqs : CreateItem(r)
  \/ \E r \in Reqs : CreateSave(r, 0)
  \/ \E r \in Reqs : CreateClearCart(r)
  \/ \E r \in Reqs, x \in {500, 750} : ProductBegin(r, "A", [price |-> x])
  \/ \E r \in Reqs : ProductSave(r)
  \/ \E r \in Reqs : VerifyBegin(r, "u1", 1, <<"order_1">>, <<"pay_1">>,
                                 Signed(<<"order_1">>, <<"pay_1">>))
  \/ \E r \in Reqs : VerifySave(r)
  \/ \E r \in Reqs :
       LET body == [event |-> "payment.failed", order_id |-> <<"order_1">>, reason |-> "declined"]
       IN WebhookBegin(r, body, Hmac(WebhookSecret, Stringify(body)))
  \/ \E r \in Reqs : WebhookSave(r)
  \/ \E r \in Reqs, st \in {"processing", "delivered"} : StatusBegin(r, 1, st)
  \/ \E r \in Reqs : StatusSave(r)
  \/ \E r \in Reqs : CancelBegin(r, "u1", 1, "")
  \/ \E r \in Reqs : CancelSave(r)
  \/ \E r \in Reqs : CancelRestore(r)
  \/ \E r \in Reqs : Finish(r)

SpecFrame == Init /\ [][NextFrame]_vars

\* paymentInfo.status of a createOrder request body: not sent, or a value of the client's
PaymentInputs == {"absent", "pending", "completed"}

\* an order is placed with a payment status of the client's choosing and then verified
NextPaid ==
  \/ \E r \in Reqs, payIn \in PaymentInputs :
       CreateBegin(r, "u1", <<[product |-> "A", quantity |-> 1]>>, "razorpay", payIn, NoId,
                   NoCoupon, 1)
  \/ \E r \in Reqs : CreateItem(r)
  \/ \E r \in Reqs : CreateSave(r, 0)
  \/ \E r \in Reqs : CreateClearCart(r)
  \/ \E r \in Reqs, u \in Users, po \in ProviderOrderIds, pp \in ProviderPaymentIds,
        sig \in VerifySignatures : VerifyBegin(r, u, 1, po, pp, sig)
  \/ \E r \in Reqs : VerifySave(r)
  \/ \E r \in Reqs, body \in WebhookBodies :
       \E sig \in WebhookSignatures(body) : WebhookBegin(r, body, sig)
  \/ \E r \in Reqs : WebhookSave(r)
  \/ \E r \in Reqs : Finish(r)

SpecPaid == Init /\ [][NextPaid]_vars

\* a customer places two orders and sends the provider's confirmation of one payment for
\* either of them
NextReplay ==
  \/ \E r \in Reqs, p \in Products :
       CreateBegin(r, "u1", <<[product |-> p, quantity |-> 1]>>, "razorpay", "absent", NoId,
                   NoCoupon, MaxOrders)
  \/ \E r \in Reqs : CreateItem(r)
  \/ \E r \in Reqs : CreateSave(r, 0)
  \/ \E r \in Reqs : CreateClearCart(r)
  \/ \E r \in Reqs, o \in 1..MaxOrders :
       VerifyBegin(r, "u1", o, <<"order_1">>, <<"pay_1">>, Signed(<<"order_1">>, <<"pay_1">>))
  \/ \E r \in Reqs : VerifySave(r)
  \/ \E r \in Reqs : Finish(r)
  \/ Tick

SpecReplay == Init /\ [][NextReplay]_vars

\* an order is placed and then verified, processed as cash on delivery, moved on by the
\* admin and cancelled, in any interleaving
NextTimeline ==
  \/ \E r \in Reqs, m \in {"cod", "razorpay"} :
       CreateBegin(r, "u1", <<[product |-> "A", quantity |-> 1]>>, m, "absent", NoId,
                   NoCoupon, 1)
  \/ \E r \in Reqs : CreateItem(r)
  \/ \E r \in Reqs : CreateSave(r, 0)
  \/ \E r \in Reqs : CreateClearCart(r)
  \/ \E r \in Reqs : VerifyBegin(r, "u1", 1, <<"order_1">>, <<"pay_1">>,
                                 Signed(<<"order_1">>, <<"pay_1">>))
  \/ \E r \in Reqs : VerifySave(r)
  \/ \E r \in Reqs : CodBegin(r, "u1", 1)
  \/ \E r \in Reqs : CodSave(r)
  \/ \E r \in Reqs, st \in {"pending", "processing", "shipped"} : StatusBegin(r, 1, st)
  \/ \E r \in Reqs : StatusSave(r)
  \/ \E r \in Reqs : CancelBegin(r, "u1", 1, "")
  \/ \E r \in Reqs : CancelSave(r)
  \/ \E r \in Reqs : CancelRestore(r)
  \/ \E r \in Reqs : Finish(r)

SpecTimeline == Init /\ [][NextTimeline]_vars

\* the admin stocks up a product and customers order it, also twice in one request
NextDuplicate ==
  \/ \E r \in Reqs, its \in ItemLists(Products, MaxItems, 1) :
       CreateBegin(r, "u1", its, "razorpay", "absent", NoId, NoCoupon, 1)
  \/ \E r \in Reqs : CreateItem(r)
  \/ \E r \in Reqs : CreateSave(r, 0)
  \/ \E r \in Reqs : CreateClearCart(r)
  \/ \E r \in Reqs, p \in Products : ProductBegin(r, p, [stock |-> MaxStock])
  \/ \E r \in Reqs : ProductSave(r)
  \/ \E r \in Reqs : Finish(r)

SpecDuplicate == Init /\ [][NextDuplicate]_vars

(* ------------------------------ properties ---------------------------- *)

RECURSIVE QtyOf(_, _)
\* the quantity of product p in a list of line items
QtyOf(its, p) ==
  IF its = <<>> THEN 0
  ELSE (IF its[1].product = p THEN its[1].quantity ELSE 0) + QtyOf(Tail(its), p)

RECURSIVE Sold(_, _)
\* the quantity of product p in the first n persisted orders
Sold(n, p) == IF n = 0 THEN 0 ELSE QtyOf(orders[n].items, p) + Sold(n - 1, p)

\* a createOrder handler that has answered
Answered(r) == req[r].op = "create" /\ req[r].pc = "done"

\* C1: with only createOrder requests running, the quantities of a product in the orders
\* that were created never add up to more than the stock the product started with.
C1_NoOversell == \A p \in Products : Sold(Len(orders), p) <= InitStock

\* C2: every product's stock is a non-negative number in every reachable state.
C2_StockNonNegative == \A p \in Products : stock[p] \in Nat

\* C2: an order has been cancelled and a product is sold out.
C2_Witness ==
  /\ \E o \in OrderIds : orders[o].status = "cancelled"
  /\ \E r \in Reqs : req[r].op = "cancel" /\ req[r].result = "Cancelled"
  /\ \E p \in Products : stock[p] = 0

\* C3: a createOrder request rejected for insufficient stock has changed no product's stock.
C3_RejectedLeavesStock ==
  \A r \in Reqs : (Answered(r) /\ req[r].result = "InsufficientStock") => req[r].net = ZeroNet

\* a product the request names that Product.find did not return
Unavailable(r) == \E k \in 1..Len(req[r].items) : req[r].items[k].product \notin DOMAIN req[r].found

\* C4: a createOrder request naming a missing or inactive product goes no further than the
\* validation of the product ids: it is answered 'Some products are not available' and has
\* changed no stock, persisted no order and not cleared the cart.
C4_UnavailableFailsFirst ==
  \A r \in Reqs :
    (req[r].op = "create" /\ Unavailable(r)) =>
      /\ req[r].pc = "done"
      /\ req[r].result = "NotAvailable"
      /\ req[r].net = ZeroNet
      /\ req[r].oid = 0
      /\ ~req[r].cleared

\* C4: a request for two products, one of them inactive, was rejected with the cart filled,
\* and so was a request naming an id that is no product.
C4_Witness ==
  \E r \in Reqs :
    /\ Answered(r) /\ req[r].result = "NotAvailable"
    /\ Len(req[r].items) = 2
    /\ \E k \in 1..2 : req[r].items[k].product \in DOMAIN req[r].found
    /\ \E k \in 1..2 : req[r].items[k].product \in Products \ DOMAIN req[r].found
    /\ cart[req[r].user] # {}
    /\ \E q \in Reqs : Answered(q) /\ req[q].result = "NotAvailable"
                         /\ req[q].items[1].product = Missing

\* C5: a createOrder request that failed when the order was saved has left every product's
\* stock as it was.
C5_FailedSaveRollsBack ==
  \A r \in Reqs :
    (Answered(r) /\ req[r].result \in {"DuplicateKey", "ValidationError"}) => req[r].net = ZeroNet

\* C6: the order numbers of the persisted orders are pairwise distinct.
C6_DistinctNumbers ==
  \A j, k \in OrderIds : j # k => orders[j].orderNumber # orders[k].orderNumber

\* C6: two orders are persisted and a third request drew a number already taken.
C6_Witness ==
  /\ Len(orders) = 2
  /\ \E r \in Reqs : Answered(r) /\ req[r].result = "DuplicateKey"

\* C7: every order's number is SS + date + sequence, the sequence being one more than the
\* number of earlier orders of the same day.
C7_DailySequence ==
  \A k \in OrderIds :
    LET n == orders[k].orderNumber
    IN /\ n[1] = "SS"
       /\ n[3] = 1 + Cardinality({j \in 1..(k - 1) : orders[j].orderNumber[2] = n[2]})

\* C8: no createOrder request is answered with the duplicate-key failure.
C8_DuplicateKeyNotSurfaced == \A r \in Reqs : req[r].result # "DuplicateKey"

\* the status changes the order lifecycle allows
StatusGraph ==
  {<<"pending", "confirmed">>, <<"confirmed", "processing">>, <<"processing", "shipped">>,
   <<"shipped", "delivered">>}
  \cup ({"pending", "confirmed", "processing"} \X {"cancelled"})
  \cup (OrderStatuses \X {"returned"})

\* C9: every change of a persisted order's status is an edge of the status graph.
C9_StatusGraph ==
  [][\A o \in OrderIds :
       orders'[o].status # orders[o].status =>
         <<orders[o].status, orders'[o].status>> \in StatusGraph]_vars

\* C10: a cancelOrder request that finds the order shipped, delivered, cancelled or returned
\* is answered with an error at once (InvalidTransition to the owner, Forbidden to anyone
\* else), and orders and stock stay as they are.
C10_ForbiddenCancel ==
  [][\A r \in Reqs :
       (/\ req[r].pc = "idle"
        /\ req'[r].op = "cancel"
        /\ req'[r].oid \in OrderIds
        /\ orders[req'[r].oid].status \in {"shipped", "delivered", "cancelled", "returned"})
       => (/\ req'[r].pc = "done"
           /\ req'[r].result = IF orders[req'[r].oid].user = req'[r].user
                                THEN "InvalidTransition" ELSE "Forbidden"
           /\ orders' = orders
           /\ stock' = stock)]_vars

\* C10: a cancellation of a shipped order was refused.
C10_Witness ==
  \E r \in Reqs :
    /\ req[r].op = "cancel" /\ req[r].result = "InvalidTransition"
    /\ orders[req[r].oid].status = "shipped"

\* C11: a cancelOrder request that succeeded has raised the stock of each product by the
\* quantities of the order's line items for that product, and of no other product.
C11_CancelRestoresExactly ==
  \A r \in Reqs :
    (req[r].op = "cancel" /\ req[r].result = "Cancelled") =>
      \A p \in Products : req[r].net[p] = QtyOf(orders[req[r].oid].items, p)

\* C11: an order of two line items was cancelled while the other product's stock stood
\* where the restore left it.
C11_Witness ==
  \E r \in Reqs :
    /\ req[r].op = "cancel" /\ req[r].result = "Cancelled"
    /\ Len(orders[req[r].oid].items) = 2
    /\ req[r].net = [p \in Products |-> 1]

\* a cancellation of order o that was saved and whose restore loop missed a line item
Interrupted(o) ==
  /\ o \in OrderIds
  /\ orders[o].status = "cancelled"
  /\ \E k \in DOMAIN orders[o].restored : orders[o].restored[k] = 0
  /\ \A r \in Reqs : ~(req[r].op = "cancel" /\ req[r].oid = o /\ req[r].pc = "restore")

\* every line item of order o has been restored to stock exactly once
RestoredOnce(o) ==
  /\ o \in OrderIds
  /\ \A k \in DOMAIN orders[o].restored : orders[o].restored[k] = 1

\* C12: once a cancellation was saved and its restore loop was cut short, repeating the
\* cancellation leads to a state where every line item has been restored exactly once.
C12_RetryCompletesRestore == \A o \in 1..MaxOrders : Interrupted(o) ~> RestoredOnce(o)

\* the changes of payment status the payment lifecycle allows
PaymentGraph == {<<"pending", "completed">>, <<"pending", "failed">>, <<"completed", "refunded">>}

\* C13: every change of a persisted order's payment status is pending to completed, pending
\* to failed or completed to refunded.
C13_PaymentGraph ==
  [][\A o \in OrderIds :
       orders'[o].payStatus # orders[o].payStatus =>
         <<orders[o].payStatus, orders'[o].payStatus>> \in PaymentGraph]_vars

\* C14: the save of a payment.failed webhook on an order that verifyPayment completed
\* leaves the payment status completed.
C14_FailedAfterVerified ==
  [][\A r \in Reqs :
       (/\ req[r].op = "webhook" /\ req[r].pc = "webhookSave" /\ req'[r].pc = "done"
        /\ orders[req[r].oid].paymentId # NoId
        /\ orders[req[r].oid].payStatus = "completed")
       => orders'[req[r].oid].payStatus = "completed"]_vars

\* C15: a verify request whose signature is not the HMAC of its order id | payment id under
\* the key secret is answered SignatureMismatch at once and no order changes.
C15_TamperedVerify ==
  [][\A r \in Reqs :
       (/\ req[r].pc = "idle" /\ req'[r].op = "verify"
        /\ req'[r].sig # Hmac(KeySecret, Join(req'[r].po, req'[r].pp)))
       => (/\ req'[r].pc = "done"
           /\ req'[r].result = "SignatureMismatch"
           /\ orders' = orders)]_vars

\* C15: the owner of a pending order was refused with the provider's signature of another
\* order id, and someone with a signature made without the key.
C15_Witness ==
  /\ \E r \in Reqs :
       /\ req[r].op = "verify" /\ req[r].result = "SignatureMismatch"
       /\ req[r].oid \in OrderIds /\ orders[req[r].oid].user = req[r].user
       /\ orders[req[r].oid].payStatus = "pending"
       /\ \E po \in ProviderOrderIds \ {req[r].po} : req[r].sig = Hmac(KeySecret, Join(po, req[r].pp))
  /\ \E r \in Reqs :
       /\ req[r].op = "verify" /\ req[r].result = "SignatureMismatch"
       /\ req[r].sig.key # KeySecret

\* the body of the delivery a webhook handler was started with
BodyOf(q) == [event |-> q.event, order_id |-> q.po, reason |-> q.reason]

\* C16: a webhook delivery whose signature header is not the HMAC of its body under the
\* webhook secret is answered SignatureMismatch at once and no order changes, whether or not
\* the server has the secret configured.
C16_TamperedWebhook ==
  [][\A r \in Reqs :
       (/\ req[r].pc = "idle" /\ req'[r].op = "webhook"
        /\ req'[r].sig # Hmac(WebhookSecret, Stringify(BodyOf(req'[r]))))
       => (/\ req'[r].pc = "done"
           /\ req'[r].result = "SignatureMismatch"
           /\ orders' = orders)]_vars

\* what reconciliation is about: order status, payment status, provider ids, timeline
Reconciled(o) ==
  <<o.status, o.payStatus, o.providerOrderId, o.paymentId, o.signature, o.timeline>>

\* C17: the save of a verify request whose ids and signature the order already carries, and
\* the save of a payment.failed delivery whose failure reason the order already carries,
\* leave the order's status, payment status, provider ids and timeline as they are.
C17_ReconcileIdempotent ==
  [][\A r \in Reqs :
       LET o == req[r].oid
       IN (/\ req[r].pc \in {"verifySave", "webhookSave"} /\ req'[r].pc = "done"
           /\ req[r].op = "verify" =>
                /\ orders[o].providerOrderId = req[r].po
                /\ orders[o].paymentId = req[r].pp
                /\ orders[o].signature = req[r].sig
           /\ req[r].op = "webhook" => orders[o].failureReason = req[r].reason)
          => Reconciled(orders'[o]) = Reconciled(orders[o])]_vars

\* C18: a payment.captured delivery with the provider's signature, for an order whose
\* payment is pending, is not answered before the order's payment is completed.
C18_CapturedCompletes ==
  [][\A r \in Reqs :
       LET o == FindByProviderOrder(req'[r].po)
       IN (/\ req[r].pc = "idle" /\ req'[r].op = "webhook"
           /\ req'[r].event = "payment.captured"
           /\ req'[r].sig = Hmac(WebhookSecret, Stringify(BodyOf(req'[r])))
           /\ o # 0
           /\ orders[o].payStatus = "pending")
          => (req'[r].pc # "done" \/ orders'[o].payStatus = "completed")]_vars

\* C19: the save of a verified payment leaves the order's status as it is, or moves it
\* from pending to confirmed.
C19_VerifyConfirmsPendingOnly ==
  [][\A r \in Reqs :
       LET o == req[r].oid
       IN (req[r].op = "verify" /\ req[r].pc = "verifySave" /\ req'[r].pc = "done")
          => \/ orders'[o].status = orders[o].status
             \/ orders[o].status = "pending" /\ orders'[o].status = "confirmed"]_vars

\* C20: a step that changes a persisted order's status appends that status to the order's
\* timeline, a step that leaves the status as it is leaves the timeline as it is, and a new
\* order's timeline is its status.
C20_TimelinePerChange ==
  [][/\ \A o \in OrderIds :
          orders'[o].timeline = IF orders'[o].status # orders[o].status
                                THEN Append(orders[o].timeline, orders'[o].status)
                                ELSE orders[o].timeline
     /\ \A o \in (1..Len(orders')) \ OrderIds : orders'[o].timeline = <<orders'[o].status>>]_vars

\* C21: in every step, each persisted order's timeline is its timeline before the step,
\* possibly with entries added at the end.
C21_TimelineAppendOnly ==
  [][\A o \in OrderIds :
       /\ Len(orders'[o].timeline) >= Len(orders[o].timeline)
       /\ SubSeq(orders'[o].timeline, 1, Len(orders[o].timeline)) = orders[o].timeline]_vars

\* C21: an order's timeline has grown to three entries, the last one written while another
\* handler was about to save the same order.
C21_Witness ==
  \E o \in OrderIds :
    /\ Len(orders[o].timeline) = 3
    /\ \E r \in Reqs : req[r].oid = o /\ req[r].pc \in {"verifySave", "statusSave", "cancelSave"}

\* C22: an order enters the collection with status confirmed when its payment method is
\* cash on delivery and with status pending for every other method.
C22_InitialStatus ==
  [][\A o \in (1..Len(orders')) \ OrderIds :
       orders'[o].status = IF orders'[o].method = "cod" THEN "confirmed" ELSE "pending"]_vars

\* C22: a cash-on-delivery order has just been saved as confirmed.
C22_Witness ==
  \E r \in Reqs :
    /\ req[r].op = "create" /\ req[r].pc = "clearCart"
    /\ orders[req[r].oid].method = "cod"
    /\ orders[req[r].oid].status = "confirmed"
    /\ orders[req[r].oid].timeline = <<"confirmed">>

\* C23: a cancelOrder request that passes the checks builds, from the order as it loaded it,
\* a cancellation with refundStatus pending and refundAmount the order total when the
\* payment status is completed, with processed and 0 otherwise, and with the reason given or
\* "Cancelled by customer" for none; its save persists that record with status cancelled.
C23_RefundBookkeeping ==
  [][\A r \in Reqs :
       LET o == req'[r].oid
       IN /\ (req[r].pc = "idle" /\ req'[r].op = "cancel" /\ req'[r].pc = "cancelSave") =>
               LET paid == orders[o].payStatus = "completed"
                   c == req'[r].set.cancellation
               IN /\ c.refundStatus = IF paid THEN "pending" ELSE "processed"
                  /\ c.refundAmount = IF paid THEN orders[o].pricing.total ELSE 0
                  /\ c.reason = IF req'[r].reason = "" THEN "Cancelled by customer"
                                ELSE req'[r].reason
          /\ (req[r].op = "cancel" /\ req[r].pc = "cancelSave" /\ req'[r].pc = "restore") =>
               /\ orders'[o].cancellation = req[r].set.cancellation
               /\ orders'[o].status = "cancelled"]_vars

\* C23: a paid order was cancelled without a reason: the refund of its total is pending.
C23_Witness ==
  \E r \in Reqs :
    /\ req[r].op = "cancel" /\ req[r].result = "Cancelled"
    /\ orders[req[r].oid].payStatus = "completed"
    /\ orders[req[r].oid].cancellation.refundStatus = "pending"
    /\ orders[req[r].oid].cancellation.refundAmount = 690
    /\ orders[req[r].oid].cancellation.reason = "Cancelled by customer"

\* C24: every persisted order's total is its subtotal plus tax plus shipping cost minus
\* discount.
C24_TotalIsSum ==
  \A o \in OrderIds :
    LET p == orders[o].pricing
    IN p.total = p.subtotal + p.tax + p.shippingCost - p.discount

\* C24: an order with a discount has been cancelled.
C24_Witness ==
  \E o \in OrderIds :
    /\ orders[o].pricing.discount > 0
    /\ orders[o].pricing.subtotal = 1500
    /\ orders[o].status = "cancelled"

\* C25: every persisted order's total is zero or more.
C25_TotalNonNegative == \A o \in OrderIds : orders[o].pricing.total >= 0

RECURSIVE LineSum(_, _)
\* price times quantity, added up over the first n line items
LineSum(its, n) == IF n = 0 THEN 0 ELSE LineSum(its, n - 1) + its[n].price * its[n].quantity

\* C26: every persisted order's subtotal is the sum of price times quantity over its line
\* items, and its tax is the integer nearest to 18 per cent of the subtotal, the half
\* rounded up.
C26_SubtotalAndTax ==
  \A o \in OrderIds :
    LET p == orders[o].pricing
    IN /\ p.subtotal = LineSum(orders[o].items, Len(orders[o].items))
       /\ 18 * p.subtotal - 50 < 100 * p.tax
       /\ 100 * p.tax <= 18 * p.subtotal + 50

\* C26: an order of subtotal 25, whose tax of 4.5 is rounded up to 5.
C26_Witness ==
  \E o \in OrderIds : orders[o].pricing.subtotal = 25 /\ orders[o].pricing.tax = 5

\* C27: every persisted order's shipping cost is 0 when its subtotal is above 1000 and 100
\* otherwise.
C27_ShippingThreshold ==
  \A o \in OrderIds :
    LET p == orders[o].pricing
    IN p.shippingCost = IF p.subtotal > 1000 THEN 0 ELSE 100

\* C27: an order of subtotal exactly 1000 pays the flat fee.
C27_Witness ==
  \E o \in OrderIds : orders[o].pricing.subtotal = 1000 /\ orders[o].pricing.shippingCost = 100

\* C28: every persisted order's discount is the subtotal's percentage, rounded half up, for
\* a coupon of type percentage, the coupon's discount for a coupon of type fixed, and 0
\* otherwise.
C28_DiscountByType ==
  \A o \in OrderIds :
    LET p == orders[o].pricing
        c == orders[o].coupon
    IN p.discount = IF c.type = "percentage" THEN Round(p.subtotal * c.discount, 100)
                    ELSE IF c.type = "fixed" THEN c.discount
                    ELSE 0

\* C29: on the step by which createOrder answers with success, the cart of the user who
\* ordered is empty.
C29_SuccessEmptiesCart ==
  [][\A r \in Reqs :
       (req[r].op = "create" /\ req[r].result # "Created" /\ req'[r].result = "Created")
         => cart'[req[r].user] = {}]_vars

\* C29: a cart that held products was emptied by a successful createOrder.
C29_Witness ==
  \E r \in Reqs :
    /\ Answered(r) /\ req[r].result = "Created"
    /\ req[r].dropped # {}
    /\ cart[req[r].user] = {}

\* C30: no step changes the line items or the pricing of an order that exists.
C30_SnapshotImmutable ==
  [][\A o \in OrderIds :
       /\ orders'[o].items = orders[o].items
       /\ orders'[o].pricing = orders[o].pricing]_vars

\* C30: an order that was paid for and then cancelled still carries the price of 500 it
\* was created with, while the catalog sells the product at 750.
C30_Witness ==
  \E o \in OrderIds :
    /\ orders[o].status = "cancelled"
    /\ orders[o].payStatus = "completed"
    /\ orders[o].items[1].price = 500
    /\ orders[o].pricing.subtotal = 500
    /\ price[orders[o].items[1].product] = 750

\* no handler is between its first step and its response
Quiet == \A r \in Reqs : req[r].pc \in {"idle", "done"}

RECURSIVE Held(_, _)
\* the quantity of product p in those of the first n persisted orders that are not cancelled
Held(n, p) ==
  IF n = 0 THEN 0
  ELSE (IF orders[n].status # "cancelled" THEN QtyOf(orders[n].items, p) ELSE 0) + Held(n - 1, p)

\* C31: whenever no request is in flight, each product's stock plus the quantities of it in
\* the persisted orders that are not cancelled equals the stock the product started with.
C31_InventoryConserved ==
  Quiet => \A p \in Products : stock[p] + Held(Len(orders), p) = InitStock

\* C32: the quantity added back to stock on behalf of a line item of an order never exceeds
\* the quantity the order took for it.
C32_RestoredAtMostOnce ==
  \A o \in OrderIds : \A k \in DOMAIN orders[o].restored :
    orders[o].restored[k] * orders[o].items[k].quantity <= orders[o].items[k].quantity

\* C33: an order whose status is cancelled and whose stock has been restored keeps the
\* status cancelled, or becomes returned, at every step.
C33_CancelledTerminal ==
  [][\A o \in OrderIds :
       (/\ orders[o].status = "cancelled"
        /\ \A k \in DOMAIN orders[o].restored : orders[o].restored[k] >= 1)
       => orders'[o].status \in {"cancelled", "returned"}]_vars

\* C34: whenever an order's status is cancelled and no request is in flight, its cancellation
\* record is set and every line item's quantity has been returned to stock.
C34_CancelledIsComplete ==
  Quiet =>
    \A o \in OrderIds :
      orders[o].status = "cancelled" =>
        /\ orders[o].cancellation.set
        /\ \A k \in DOMAIN orders[o].restored : orders[o].restored[k] >= 1

\* C35: an order's payment status becomes completed, or is completed when the order is
\* inserted, only by the save of a verifyPayment request with a valid signature or of a
\* validly signed payment.captured delivery for that order.
C35_CompletedOnlyByProvider ==
  [][\A o \in 1..Len(orders') :
       (/\ orders'[o].payStatus = "completed"
        /\ o \in OrderIds => orders[o].payStatus # "completed")
       => \E r \in Reqs :
            /\ req[r].oid = o /\ req'[r].pc = "done"
            /\ \/ /\ req[r].op = "verify" /\ req[r].pc = "verifySave"
                  /\ req[r].sig = Signed(req[r].po, req[r].pp)
               \/ /\ req[r].op = "webhook" /\ req[r].pc = "webhookSave"
                  /\ req[r].event = "payment.captured"
                  /\ req[r].sig = Hmac(WebhookSecret, Stringify(BodyOf(req[r])))]_vars

\* C36: no two distinct orders have payment status completed with the same provider order
\* id and payment id.
C36_OnePaymentOneOrder ==
  \A o1, o2 \in OrderIds :
    (/\ o1 # o2
     /\ orders[o1].payStatus = "completed" /\ orders[o2].payStatus = "completed"
     /\ orders[o1].providerOrderId = orders[o2].providerOrderId)
    => orders[o1].paymentId # orders[o2].paymentId

\* C37: whenever an order is cancelled with payment status completed and no request is in
\* flight, its refund status is pending or failed and its refund amount is its total.
C37_PaidCancelledHasRefund ==
  Quiet =>
    \A o \in OrderIds :
      (orders[o].status = "cancelled" /\ orders[o].payStatus = "completed") =>
        /\ orders[o].cancellation.set
        /\ orders[o].cancellation.refundStatus \in {"pending", "failed"}
        /\ orders[o].cancellation.refundAmount = orders[o].pricing.total

\* no handler that works on order o is between its first step and its response
QuietOn(o) == \A r \in Reqs : req[r].oid = o => req[r].pc \in {"idle", "done"}

\* C38: whenever no request on an order is in flight, the order's timeline is not empty and
\* its last entry is the order's current status.
C38_TimelineTracksStatus ==
  \A o \in OrderIds :
    QuietOn(o) =>
      /\ orders[o].timeline # <<>>
      /\ orders[o].timeline[Len(orders[o].timeline)] = orders[o].status

\* C38: an order that was confirmed, then moved on and cancelled by requests that ran at the
\* same time, is at rest with three timeline entries, the last one its status.
C38_Witness ==
  \E o \in OrderIds :
    /\ QuietOn(o)
    /\ Len(orders[o].timeline) = 3
    /\ orders[o].timeline[1] = "confirmed"
    /\ orders[o].timeline[2] # orders[o].timeline[3]
    /\ orders[o].timeline[3] = orders[o].status
    /\ orders[o].status \in {"cancelled", "processing"}

\* a list of items that names a product more than once
Duplicated(its) == \E j, k \in 1..Len(its) : j < k /\ its[j].product = its[k].product

\* C39: a createOrder request that names the same product more than once goes no further
\* than the validation of the product ids: it is answered 'Some products are not available'
\* and has changed no stock and persisted no order.
C39_DuplicateRejected ==
  \A r \in Reqs :
    (req[r].op = "create" /\ Duplicated(req[r].items)) =>
      /\ req[r].pc = "done"
      /\ req[r].result = "NotAvailable"
      /\ req[r].net = ZeroNet
      /\ req[r].oid = 0

\* C39: a request for the same active product twice was rejected although Product.find
\* returned the product with stock for both lines.
C39_Witness ==
  \E r \in Reqs :
    /\ Answered(r) /\ req[r].result = "NotAvailable"
    /\ Len(req[r].items) = 2
    /\ req[r].items[1].product = req[r].items[2].product
    /\ req[r].items[1].product \in DOMAIN req[r].found
    /\ req[r].found[req[r].items[1].product].stock
         >= req[r].items[1].quantity + req[r].items[2].quantity
    /\ orders = <<>>

====
